---------------------------- MODULE Spec2Model ----------------------------
(***************************************************************************)
(* A model of state_history::rdb (src/src/state_history_rocksdb.hpp): the  *)
(* key-value host calls of one execution session.  db_view_state owns two  *)
(* kv_context_rocksdb views (kv_ram, kv_disk), the handle table            *)
(* kv_iterators and the free list kv_destroyed_iterators; db_callbacks is  *)
(* the call surface.  One action per host call; a call that throws is an   *)
(* action whose result, recorded in last, has ok = FALSE and the message   *)
(* of the std::runtime_error in err.                                       *)
(*                                                                         *)
(* Byte strings are sequences of small naturals.  C++ indices are 0-based: *)
(* slot itr of kv_iterators is kv_iterators[itr + 1] here.                 *)
(***************************************************************************)
EXTENDS Integers, Sequences, FiniteSets, TLC

(***************************************************************************)
(* Bounds of the model.  kv_database_config's limits are 1024, 256 * 1024  *)
(* and 1024 in the source (lines 141-143); the model keeps the comparisons *)
(* and scales the numbers down.                                            *)
(***************************************************************************)
max_iterators == 2

max_key_size == 2

max_value_size == 2

\* The model's cap on the length of kv_iterators (the vector is unbounded in
\* the source): the reserved slot, max_iterators cursors of one tier, and two
\* slots more.
MaxSlots == max_iterators + 3

\* The cap on the length of kv_iterators in the runs of SpecFwd.
FwdSlots == 3

(***************************************************************************)
(* Identities                                                              *)
(***************************************************************************)
kvram_id == "eosio.kvram"

kvdisk_id == "eosio.kvdisk"

\* A selector that is neither of the two.
other_db == "eosio.other"

Tiers == {kvram_id, kvdisk_id}

receiver == "alice"

other_contract == "bob"

\* kv_it_stat
iterator_ok == 0

iterator_erased == -1

iterator_end == -2

\* An empty std::unique_ptr / std::optional / std::shared_ptr is <<>>, a full
\* one is <<x>>.
Null == <<>>

Some(x) == <<x>>

\* The messages of the exceptions the code throws.
ErrBadDb == "Bad key-value database ID"

ErrTooMany == "Too many iterators"

ErrBadIterator == "Bad key-value iterator"

ErrStillAlive == "iterators are still alive"

ErrIncompatible == "Incompatible key-value iterators"

ErrErased == "Iterator to erased element"

ErrNoWrite == "Can not write to this key"

ErrKeyTooLarge == "Key too large"

ErrValueTooLarge == "Value too large"

ErrBounds == "Out of bounds"

VARIABLES
    store,                   \* the rows the chain_kv views see, per tier
    temp_data_buffer,        \* kv_context_rocksdb::temp_data_buffer, per tier
    num_iterators,           \* kv_context_rocksdb::num_iterators, per tier
    kv_iterators,            \* db_view_state::kv_iterators
    kv_destroyed_iterators,  \* db_view_state::kv_destroyed_iterators
    last,                    \* the last host call: its arguments and its outcome
    scenario                 \* observer of the calls made since construction

vars == <<store, temp_data_buffer, num_iterators, kv_iterators,
          kv_destroyed_iterators, last, scenario>>

table == <<kv_iterators, kv_destroyed_iterators, num_iterators>>

(***************************************************************************)
(* Byte strings                                                            *)
(***************************************************************************)
Min(a, b) == IF a <= b THEN a ELSE b

RECURSIVE compare_blob(_, _)
\* memcmp over the common length, then the shorter string first: -1, 0 or 1.
compare_blob(a, b) ==
    IF a = <<>> /\ b = <<>> THEN 0
    ELSE IF a = <<>> THEN -1
    ELSE IF b = <<>> THEN 1
    ELSE IF Head(a) < Head(b) THEN -1
    ELSE IF Head(a) > Head(b) THEN 1
    ELSE compare_blob(Tail(a), Tail(b))

HasPrefix(key, prefix) ==
    /\ Len(prefix) <= Len(key)
    /\ SubSeq(key, 1, Len(prefix)) = prefix

\* memcpy(dest, src + offset, n): the first n bytes of dest are overwritten.
Memcpy(dest, src, offset, n) ==
    [i \in 1..Len(dest) |-> IF i <= n THEN src[offset + i] ELSE dest[i]]

\* CopyWindow without "+ offset": the copy starts at the first byte of src.
CopyWindow_FromStart(dest, src, offset) ==
    IF offset < Len(src)
    THEN Memcpy(dest, src, 0, Min(Len(dest), Len(src) - offset))
    ELSE dest

\* The window copy of kv_get_data, kv_it_key and kv_it_value.
CopyWindow(dest, src, offset) ==
    IF offset < Len(src)
    THEN Memcpy(dest, src, offset, Min(Len(dest), Len(src) - offset))
    ELSE dest

\* A destination buffer of the caller: size bytes, all 0 before the call (the
\* bytes of keys and values are 1 and up).
Dest(size) == [i \in 1..size |-> 0]

(***************************************************************************)
(* The store as chain_kv::view shows it: rows [contract, key, value], one  *)
(* per (contract, key), ordered by key within a contract.                  *)
(***************************************************************************)
ViewGet(db, contract, key) ==
    LET hit == {r \in store[db] : r.contract = contract /\ r.key = key}
    IN IF hit = {} THEN Null ELSE Some((CHOOSE r \in hit : TRUE).value)

ViewErase(st, db, contract, key) ==
    [st EXCEPT ![db] = {r \in @ : ~(r.contract = contract /\ r.key = key)}]

ViewSet(st, db, contract, key, value) ==
    [st EXCEPT ![db] = {r \in @ : ~(r.contract = contract /\ r.key = key)}
                        \cup {[contract |-> contract, key |-> key, value |-> value]}]

\* The keys a cursor ranges over: those of its contract that start with its prefix.
RangeKeys(c) ==
    {r.key : r \in {x \in store[c.db] : x.contract = c.contract /\ HasPrefix(x.key, c.prefix)}}

Smallest(S) == CHOOSE k \in S : \A j \in S : compare_blob(k, j) <= 0

Largest(S) == CHOOSE k \in S : \A j \in S : compare_blob(k, j) >= 0

\* view::iterator: a position (Null is end), and whether the row it was at has
\* been erased since it moved there.
is_end(c) == c.pos = Null

is_erased(c) == c.pos # Null /\ c.erased

get_kv_key(c) == c.pos

get_kv_value(c) == IF c.pos = Null THEN Null ELSE ViewGet(c.db, c.contract, c.pos[1])

MoveTo(c, pos) == [c EXCEPT !.pos = pos, !.erased = FALSE]

\* The first and the last key of a set of keys, if any.
First(S) == IF S = {} THEN Null ELSE Some(Smallest(S))

Last(S) == IF S = {} THEN Null ELSE Some(Largest(S))

it_move_to_end(c) == MoveTo(c, Null)

it_lower_bound(c, key) ==
    MoveTo(c, First({k \in RangeKeys(c) : compare_blob(k, key) >= 0}))

\* ++ from end goes to the first key of the range, -- from end to the last.
it_increment(c) ==
    IF is_end(c) THEN MoveTo(c, First(RangeKeys(c)))
    ELSE MoveTo(c, First({k \in RangeKeys(c) : compare_blob(k, c.pos[1]) > 0}))

it_decrement(c) ==
    IF is_end(c) THEN MoveTo(c, Last(RangeKeys(c)))
    ELSE MoveTo(c, Last({k \in RangeKeys(c) : compare_blob(k, c.pos[1]) < 0}))

\* compare of two positions, and of a position with a key: end is after every key.
compare_key(a, b) ==
    IF a = Null /\ b = Null THEN 0
    ELSE IF a = Null THEN 1
    ELSE IF b = Null THEN -1
    ELSE compare_blob(a[1], b[1])

\* Rows at (db, contract, key) gone: the cursors positioned there become erased.
MarkErased(iters, db, contract, key) ==
    [i \in 1..Len(iters) |->
        IF iters[i] # Null /\ iters[i][1].db = db /\ iters[i][1].contract = contract
           /\ iters[i][1].pos = Some(key) /\ ViewGet(db, contract, key) # Null
        THEN Some([iters[i][1] EXCEPT !.erased = TRUE])
        ELSE iters[i]]

(***************************************************************************)
(* The outcome of a host call                                              *)
(***************************************************************************)
Call(op, db, itr, itr_b) ==
    [op |-> op, db |-> db, itr |-> itr, itr_b |-> itr_b,
     contract |-> "", key |-> <<>>, value |-> <<>>, offset |-> 0, size |-> 0,
     ok |-> TRUE, err |-> "", ret |-> 0, data |-> <<>>, actual_size |-> 0]

\* The other arguments of a call: a contract with a key (or prefix) and a
\* value, and the offset and the size of a destination.
OnKey(call, contract, key, value) ==
    [call EXCEPT !.contract = contract, !.key = key, !.value = value]

OnWindow(call, offset, size) == [call EXCEPT !.offset = offset, !.size = size]

Returns(call, ret) == [call EXCEPT !.ret = ret]

Throws(call, err) == [call EXCEPT !.ok = FALSE, !.err = err]

NoCall == Call("", "", 0, 0)

(***************************************************************************)
(* Observer of the calls and their outcomes; it reads the result r of the  *)
(* call just made and the state before it, and takes no part in any call.  *)
(*   stage, db, tok: how far the calls made since construction follow the  *)
(*     run "create on one tier max_iterators times, create once more,      *)
(*     destroy a live token, create again".  stage counts the calls of     *)
(*     that run made so far, db is its tier and tok the token destroyed;   *)
(*     any other call ends the observation (stage -1).                     *)
(*   phase, was: phase is "reset" from a reset that succeeded (was: the    *)
(*     length of kv_iterators before it) until a create succeeds, "first"  *)
(*     from that create until the next create or reset that succeeds, and  *)
(*     "none" otherwise.                                                   *)
(*   got: for each tier, the value found by the last kv_get on the tier    *)
(*     that no kv_set or kv_erase on the tier has succeeded since, read    *)
(*     from the store and not from the buffer; no value otherwise.         *)
(*   wstage, write: write is the last kv_set or kv_erase that succeeded,   *)
(*     wstage is 1 right after it, 2 when the next call is a kv_get of the *)
(*     tier, contract and key written, 3 when the call after that is a     *)
(*     kv_get_data on the tier, and 0 otherwise.                           *)
(***************************************************************************)
IsLive(itr) == itr < Len(kv_iterators) /\ kv_iterators[itr + 1] # Null

ObserveRun(r) ==
    IF r.op = "kv_it_create" /\ scenario.stage = 0 /\ r.db \in Tiers
    THEN [stage |-> 1, db |-> r.db, tok |-> 0]
    ELSE IF r.op = "kv_it_create" /\ r.db = scenario.db
            /\ (scenario.stage \in 1..max_iterators \/ scenario.stage = max_iterators + 2)
    THEN [stage |-> scenario.stage + 1, db |-> scenario.db, tok |-> scenario.tok]
    ELSE IF r.op = "kv_it_destroy" /\ scenario.stage = max_iterators + 1 /\ IsLive(r.itr)
    THEN [stage |-> scenario.stage + 1, db |-> scenario.db, tok |-> r.itr]
    ELSE [stage |-> -1, db |-> "", tok |-> 0]

ObserveReset(r) ==
    IF r.op = "reset" /\ r.ok
    THEN [phase |-> "reset", was |-> Len(kv_iterators)]
    ELSE IF r.op = "kv_it_create" /\ r.ok
    THEN IF scenario.phase = "reset"
         THEN [phase |-> "first", was |-> scenario.was]
         ELSE [phase |-> "none", was |-> 0]
    ELSE [phase |-> scenario.phase, was |-> scenario.was]

ObserveGot(r) ==
    [d \in Tiers |->
        IF r.db # d \/ ~r.ok THEN scenario.got[d]
        ELSE IF r.op \in {"kv_set", "kv_erase"} THEN Null
        ELSE IF r.op = "kv_get" THEN ViewGet(d, r.contract, r.key)
        ELSE scenario.got[d]]

ObserveWrite(r) ==
    IF r.op \in {"kv_set", "kv_erase"} /\ r.ok
    THEN [wstage |-> 1, write |-> r]
    ELSE IF r.op = "kv_get" /\ scenario.wstage = 1 /\ r.db = scenario.write.db
            /\ r.contract = scenario.write.contract /\ r.key = scenario.write.key
    THEN [wstage |-> 2, write |-> scenario.write]
    ELSE IF r.op = "kv_get_data" /\ scenario.wstage = 2 /\ r.db = scenario.write.db
    THEN [wstage |-> 3, write |-> scenario.write]
    ELSE [wstage |-> 0, write |-> NoCall]

Observe(r) ==
    LET run == ObserveRun(r)
        rst == ObserveReset(r)
        wr == ObserveWrite(r)
    IN [stage |-> run.stage, db |-> run.db, tok |-> run.tok,
        phase |-> rst.phase, was |-> rst.was,
        got |-> ObserveGot(r), wstage |-> wr.wstage, write |-> wr.write]

(***************************************************************************)
(* kv_environment and db_view_state                                        *)
(***************************************************************************)
\* kv_environment::check_bounds has an empty body: it never throws.
check_bounds(buf) == TRUE

\* kv_get_db without its throw: every selector but kvram_id names the disk view.
kv_get_db_Fallback(db) == IF db = kvram_id THEN Some(kvram_id) ELSE Some(kvdisk_id)

\* kv_get_db: the view of a selector, or no view.
kv_get_db(db) == IF db = kvram_id \/ db = kvdisk_id THEN Some(db) ELSE Null

\* kv_check_iterator's condition.
kv_check_iterator(itr) == itr < Len(kv_iterators) /\ kv_iterators[itr + 1] # Null

\* A destructor without --num_iterators.
Release_Keep(slot, num) == num

\* ~kv_iterator_rocksdb on whatever a slot owns: --num_iterators of its view.
Release(slot, num) ==
    IF slot = Null THEN num ELSE [num EXCEPT ![slot[1].db] = @ - 1]

RECURSIVE ReleaseAll(_, _)
ReleaseAll(slots, num) ==
    IF slots = <<>> THEN num ELSE ReleaseAll(Tail(slots), Release(Head(slots), num))

\* The cursor kv_iterator_rocksdb's constructor builds: at end.
NewCursor(db, contract, prefix) ==
    [db |-> db, contract |-> contract, prefix |-> prefix, pos |-> Null, erased |-> FALSE]

Init ==
    /\ store = [d \in Tiers |->
                  IF d = kvram_id
                  THEN {[contract |-> receiver, key |-> <<1>>, value |-> <<1, 2>>]}
                  ELSE {[contract |-> receiver, key |-> <<1>>, value |-> <<1>>],
                        [contract |-> receiver, key |-> <<2>>, value |-> <<2>>],
                        [contract |-> other_contract, key |-> <<1>>, value |-> <<3>>]}]
    /\ temp_data_buffer = [d \in Tiers |-> Null]
    /\ num_iterators = [d \in Tiers |-> 0]
    /\ kv_iterators = <<Null>>
    /\ kv_destroyed_iterators = <<>>
    /\ last = NoCall
    /\ scenario = [stage |-> 0, db |-> "", tok |-> 0, phase |-> "none", was |-> 0,
                   got |-> [d \in Tiers |-> Null], wstage |-> 0, write |-> NoCall]

\* ResetAllowed with >= for ==: the check lets every table through.
ResetAllowed_AtLeast == Len(kv_iterators) >= Len(kv_destroyed_iterators) + 1

\* The condition reset() checks before it truncates.
ResetAllowed == Len(kv_iterators) = Len(kv_destroyed_iterators) + 1

\* reset without its kv_destroyed_iterators.clear().
reset_KeepFreeList ==
    LET call == Call("reset", "", 0, 0) IN
    /\ UNCHANGED <<store, temp_data_buffer, kv_destroyed_iterators>>
    /\ IF Len(kv_iterators) = Len(kv_destroyed_iterators) + 1
       THEN /\ kv_iterators' = SubSeq(kv_iterators, 1, 1)
            /\ num_iterators' = ReleaseAll(Tail(kv_iterators), num_iterators)
            /\ last' = call
       ELSE /\ last' = Throws(call, ErrStillAlive)
            /\ UNCHANGED <<kv_iterators, num_iterators>>
    /\ scenario' = Observe(last')

\* db_view_state::reset
reset ==
    LET call == Call("reset", "", 0, 0) IN
    /\ UNCHANGED <<store, temp_data_buffer>>
    /\ IF ResetAllowed
       THEN /\ kv_iterators' = SubSeq(kv_iterators, 1, 1)
            /\ num_iterators' = ReleaseAll(Tail(kv_iterators), num_iterators)
            /\ kv_destroyed_iterators' = <<>>
            /\ last' = call
       ELSE /\ last' = Throws(call, ErrStillAlive)
            /\ UNCHANGED table
    /\ scenario' = Observe(last')

\* n <= 0xFFFFFFFFu, written without a number of more than 32 bits.
FitsUint32(n) == n \div 65536 < 65536

\* TakeSlot that never looks at the free list.
TakeSlot_NoReuse(iters, destroyed) ==
    [itr |-> Len(iters), iters |-> Append(iters, Null), destroyed |-> destroyed]

\* TakeSlot without its pop_back().
TakeSlot_NoPop(iters, destroyed) ==
    IF destroyed # <<>>
    THEN [itr |-> destroyed[Len(destroyed)], iters |-> iters, destroyed |-> destroyed]
    ELSE [itr |-> Len(iters), iters |-> Append(iters, Null), destroyed |-> destroyed]

\* TakeSlot with front() and an erase of the first element for back() and pop_back().
TakeSlot_Front(iters, destroyed) ==
    IF destroyed # <<>>
    THEN [itr |-> Head(destroyed), iters |-> iters, destroyed |-> Tail(destroyed)]
    ELSE [itr |-> Len(iters), iters |-> Append(iters, Null), destroyed |-> destroyed]

\* Lines 267-275 of db_callbacks::kv_it_create: the slot the new cursor goes to.
TakeSlot(iters, destroyed) ==
    IF destroyed # <<>>
    THEN [itr |-> destroyed[Len(destroyed)],
          iters |-> iters,
          destroyed |-> SubSeq(destroyed, 1, Len(destroyed) - 1)]
    ELSE [itr |-> Len(iters), iters |-> Append(iters, Null), destroyed |-> destroyed]

\* BudgetLeft with <= for <.
BudgetLeft_OffByOne(db) == num_iterators[db] <= max_iterators

\* The condition kv_context_rocksdb::kv_it_create checks on its own view.
BudgetLeft(db) == num_iterators[db] < max_iterators

\* db_callbacks::kv_it_create, with kv_context_rocksdb::kv_it_create
kv_it_create(db, contract, prefix) ==
    LET call == OnKey(Call("kv_it_create", db, 0, 0), contract, prefix, <<>>)
        kdb == kv_get_db(db)
        slot == TakeSlot(kv_iterators, kv_destroyed_iterators)
    IN
    \* the model's cap on the growth of kv_iterators
    /\ kdb = Null \/ kv_destroyed_iterators # <<>> \/ Len(kv_iterators) < MaxSlots
    /\ UNCHANGED <<store, temp_data_buffer>>
    /\ IF ~check_bounds(prefix)
       THEN last' = Throws(call, ErrBounds) /\ UNCHANGED table
       ELSE IF kdb = Null
       THEN last' = Throws(call, ErrBadDb) /\ UNCHANGED table
       ELSE IF kv_destroyed_iterators = <<>> /\ ~FitsUint32(Len(kv_iterators))
       THEN last' = Throws(call, ErrTooMany) /\ UNCHANGED table
       ELSE IF ~BudgetLeft(kdb[1])
       THEN \* the slot is taken before kv_context_rocksdb::kv_it_create throws
            /\ kv_iterators' = slot.iters
            /\ kv_destroyed_iterators' = slot.destroyed
            /\ UNCHANGED num_iterators
            /\ last' = Throws(call, ErrTooMany)
       ELSE /\ kv_iterators' = [slot.iters EXCEPT ![slot.itr + 1] =
                                   Some(NewCursor(kdb[1], contract, prefix))]
            /\ kv_destroyed_iterators' = slot.destroyed
            /\ num_iterators' = [Release(slot.iters[slot.itr + 1], num_iterators)
                                   EXCEPT ![kdb[1]] = @ + 1]
            /\ last' = Returns(call, slot.itr)
    /\ scenario' = Observe(last')

\* kv_it_destroy with its push_back() before kv_check_iterator.
kv_it_destroy_PushFirst(itr) ==
    LET call == Call("kv_it_destroy", "", itr, 0) IN
    /\ UNCHANGED <<store, temp_data_buffer>>
    /\ kv_destroyed_iterators' = Append(kv_destroyed_iterators, itr)
    /\ IF ~kv_check_iterator(itr)
       THEN last' = Throws(call, ErrBadIterator) /\ UNCHANGED <<kv_iterators, num_iterators>>
       ELSE /\ kv_iterators' = [kv_iterators EXCEPT ![itr + 1] = Null]
            /\ num_iterators' = Release(kv_iterators[itr + 1], num_iterators)
            /\ last' = call
    /\ scenario' = Observe(last')

\* db_callbacks::kv_it_destroy
kv_it_destroy(itr) ==
    LET call == Call("kv_it_destroy", "", itr, 0) IN
    /\ UNCHANGED <<store, temp_data_buffer>>
    /\ IF ~kv_check_iterator(itr)
       THEN last' = Throws(call, ErrBadIterator) /\ UNCHANGED table
       ELSE /\ kv_destroyed_iterators' = Append(kv_destroyed_iterators, itr)
            /\ kv_iterators' = [kv_iterators EXCEPT ![itr + 1] = Null]
            /\ num_iterators' = Release(kv_iterators[itr + 1], num_iterators)
            /\ last' = call
    /\ scenario' = Observe(last')

(***************************************************************************)
(* kv_iterator_rocksdb's methods on a cursor c, and the calls that forward *)
(* to them                                                                 *)
(***************************************************************************)
it_status(c) ==
    IF is_end(c) THEN iterator_end
    ELSE IF is_erased(c) THEN iterator_erased
    ELSE iterator_ok

Cursor(itr) == kv_iterators[itr + 1][1]

SetCursor(itr, c) == [kv_iterators EXCEPT ![itr + 1] = Some(c)]

\* What no cursor call but create and destroy touches.
NotCursors == <<store, temp_data_buffer, kv_destroyed_iterators, num_iterators>>

\* db_callbacks::kv_it_status
kv_it_status(itr) ==
    LET call == Call("kv_it_status", "", itr, 0) IN
    /\ UNCHANGED <<NotCursors, kv_iterators>>
    /\ IF ~kv_check_iterator(itr)
       THEN last' = Throws(call, ErrBadIterator)
       ELSE last' = Returns(call, it_status(Cursor(itr)))
    /\ scenario' = Observe(last')

\* kv_it_compare with the erased checks before the check of view and contract.
kv_it_compare_ErasedFirst(itr_a, itr_b) ==
    LET call == Call("kv_it_compare", "", itr_a, itr_b) IN
    /\ UNCHANGED <<NotCursors, kv_iterators>>
    /\ IF ~kv_check_iterator(itr_a) \/ ~kv_check_iterator(itr_b)
       THEN last' = Throws(call, ErrBadIterator)
       ELSE LET l == Cursor(itr_a)
                r == Cursor(itr_b)
            IN IF is_erased(l) \/ is_erased(r)
               THEN last' = Throws(call, ErrErased)
               ELSE IF ~(l.db = r.db /\ l.contract = r.contract)
               THEN last' = Throws(call, ErrIncompatible)
               ELSE last' = Returns(call, compare_key(l.pos, r.pos))
    /\ scenario' = Observe(last')

\* db_callbacks::kv_it_compare, with kv_iterator_rocksdb::kv_it_compare
kv_it_compare(itr_a, itr_b) ==
    LET call == Call("kv_it_compare", "", itr_a, itr_b) IN
    /\ UNCHANGED <<NotCursors, kv_iterators>>
    /\ IF ~kv_check_iterator(itr_a) \/ ~kv_check_iterator(itr_b)
       THEN last' = Throws(call, ErrBadIterator)
       ELSE LET l == Cursor(itr_a)
                r == Cursor(itr_b)
            IN IF ~(l.db = r.db /\ l.contract = r.contract)
               THEN last' = Throws(call, ErrIncompatible)
               ELSE IF is_erased(l) \/ is_erased(r)
               THEN last' = Throws(call, ErrErased)
               ELSE last' = Returns(call, compare_key(l.pos, r.pos))
    /\ scenario' = Observe(last')

\* db_callbacks::kv_it_key_compare, with kv_iterator_rocksdb::kv_it_key_compare
kv_it_key_compare(itr, key) ==
    LET call == OnKey(Call("kv_it_key_compare", "", itr, 0), "", key, <<>>) IN
    /\ UNCHANGED <<NotCursors, kv_iterators>>
    /\ IF ~check_bounds(key)
       THEN last' = Throws(call, ErrBounds)
       ELSE IF ~kv_check_iterator(itr)
       THEN last' = Throws(call, ErrBadIterator)
       ELSE IF is_erased(Cursor(itr))
       THEN last' = Throws(call, ErrErased)
       ELSE last' = Returns(call, compare_key(get_kv_key(Cursor(itr)), Some(key)))
    /\ scenario' = Observe(last')

\* db_callbacks::kv_it_move_to_end, with kv_iterator_rocksdb::kv_it_move_to_end
kv_it_move_to_end(itr) ==
    LET call == Call("kv_it_move_to_end", "", itr, 0) IN
    /\ UNCHANGED NotCursors
    /\ IF ~kv_check_iterator(itr)
       THEN last' = Throws(call, ErrBadIterator) /\ UNCHANGED kv_iterators
       ELSE /\ kv_iterators' = SetCursor(itr, it_move_to_end(Cursor(itr)))
            /\ last' = Returns(call, iterator_end)
    /\ scenario' = Observe(last')

\* kv_it_next without its check of is_erased: an erased cursor moves on.
kv_it_next_NoCheck(itr) ==
    LET call == Call("kv_it_next", "", itr, 0) IN
    /\ UNCHANGED NotCursors
    /\ IF ~kv_check_iterator(itr)
       THEN last' = Throws(call, ErrBadIterator) /\ UNCHANGED kv_iterators
       ELSE LET c == it_increment(Cursor(itr))
            IN /\ kv_iterators' = SetCursor(itr, c)
               /\ last' = Returns(call, it_status(c))
    /\ scenario' = Observe(last')

\* db_callbacks::kv_it_next, with kv_iterator_rocksdb::kv_it_next
kv_it_next(itr) ==
    LET call == Call("kv_it_next", "", itr, 0) IN
    /\ UNCHANGED NotCursors
    /\ IF ~kv_check_iterator(itr)
       THEN last' = Throws(call, ErrBadIterator) /\ UNCHANGED kv_iterators
       ELSE IF is_erased(Cursor(itr))
       THEN last' = Throws(call, ErrErased) /\ UNCHANGED kv_iterators
       ELSE LET c == it_increment(Cursor(itr))
            IN /\ kv_iterators' = SetCursor(itr, c)
               /\ last' = Returns(call, it_status(c))
    /\ scenario' = Observe(last')

\* db_callbacks::kv_it_prev, with kv_iterator_rocksdb::kv_it_prev
kv_it_prev(itr) ==
    LET call == Call("kv_it_prev", "", itr, 0) IN
    /\ UNCHANGED NotCursors
    /\ IF ~kv_check_iterator(itr)
       THEN last' = Throws(call, ErrBadIterator) /\ UNCHANGED kv_iterators
       ELSE IF is_erased(Cursor(itr))
       THEN last' = Throws(call, ErrErased) /\ UNCHANGED kv_iterators
       ELSE LET c == it_decrement(Cursor(itr))
            IN /\ kv_iterators' = SetCursor(itr, c)
               /\ last' = Returns(call, it_status(c))
    /\ scenario' = Observe(last')

\* kv_it_lower_bound with the check of is_erased that kv_it_next has.
kv_it_lower_bound_CheckErased(itr, key) ==
    LET call == OnKey(Call("kv_it_lower_bound", "", itr, 0), "", key, <<>>) IN
    /\ UNCHANGED NotCursors
    /\ IF ~kv_check_iterator(itr)
       THEN last' = Throws(call, ErrBadIterator) /\ UNCHANGED kv_iterators
       ELSE IF is_erased(Cursor(itr))
       THEN last' = Throws(call, ErrErased) /\ UNCHANGED kv_iterators
       ELSE LET c == it_lower_bound(Cursor(itr), key)
            IN /\ kv_iterators' = SetCursor(itr, c)
               /\ last' = Returns(call, it_status(c))
    /\ scenario' = Observe(last')

\* db_callbacks::kv_it_lower_bound, with kv_iterator_rocksdb::kv_it_lower_bound
kv_it_lower_bound(itr, key) ==
    LET call == OnKey(Call("kv_it_lower_bound", "", itr, 0), "", key, <<>>) IN
    /\ UNCHANGED NotCursors
    /\ IF ~check_bounds(key)
       THEN last' = Throws(call, ErrBounds) /\ UNCHANGED kv_iterators
       ELSE IF ~kv_check_iterator(itr)
       THEN last' = Throws(call, ErrBadIterator) /\ UNCHANGED kv_iterators
       ELSE LET c == it_lower_bound(Cursor(itr), key)
            IN /\ kv_iterators' = SetCursor(itr, c)
               /\ last' = Returns(call, it_status(c))
    /\ scenario' = Observe(last')

\* kv_iterator_rocksdb::kv_it_key and kv_it_value after their erased check:
\* kv is the optional key or value of the current row.
ReadWindow(call, kv, offset, size) ==
    IF kv # Null
    THEN [call EXCEPT !.data = CopyWindow(Dest(size), kv[1], offset),
                      !.actual_size = Len(kv[1]),
                      !.ret = iterator_ok]
    ELSE [call EXCEPT !.data = Dest(size), !.actual_size = 0, !.ret = iterator_end]

\* db_callbacks::kv_it_key, with kv_iterator_rocksdb::kv_it_key
kv_it_key(itr, offset, size) ==
    LET call == OnWindow(Call("kv_it_key", "", itr, 0), offset, size) IN
    /\ UNCHANGED <<NotCursors, kv_iterators>>
    /\ IF ~check_bounds(Dest(size))
       THEN last' = Throws(call, ErrBounds)
       ELSE IF ~kv_check_iterator(itr)
       THEN last' = Throws(call, ErrBadIterator)
       ELSE IF is_erased(Cursor(itr))
       THEN last' = Throws(call, ErrErased)
       ELSE last' = ReadWindow(call, get_kv_key(Cursor(itr)), offset, size)
    /\ scenario' = Observe(last')

\* db_callbacks::kv_it_value, with kv_iterator_rocksdb::kv_it_value
kv_it_value(itr, offset, size) ==
    LET call == OnWindow(Call("kv_it_value", "", itr, 0), offset, size) IN
    /\ UNCHANGED <<NotCursors, kv_iterators>>
    /\ IF ~check_bounds(Dest(size))
       THEN last' = Throws(call, ErrBounds)
       ELSE IF ~kv_check_iterator(itr)
       THEN last' = Throws(call, ErrBadIterator)
       ELSE IF is_erased(Cursor(itr))
       THEN last' = Throws(call, ErrErased)
       ELSE last' = ReadWindow(call, get_kv_value(Cursor(itr)), offset, size)
    /\ scenario' = Observe(last')

\* kv_erase without view.erase: the row stays.
kv_erase_NoErase(db, contract, key) ==
    LET call == OnKey(Call("kv_erase", db, 0, 0), contract, key, <<>>)
        kdb == kv_get_db(db)
    IN
    /\ UNCHANGED <<store, kv_iterators, kv_destroyed_iterators, num_iterators>>
    /\ IF kdb = Null
       THEN last' = Throws(call, ErrBadDb) /\ UNCHANGED temp_data_buffer
       ELSE IF contract # receiver
       THEN last' = Throws(call, ErrNoWrite) /\ UNCHANGED temp_data_buffer
       ELSE /\ temp_data_buffer' = [temp_data_buffer EXCEPT ![kdb[1]] = Null]
            /\ last' = call
    /\ scenario' = Observe(last')

\* The size checks of kv_context_rocksdb::kv_set.
\* KeyFits with < for <=: a key of max_key_size bytes is refused.
KeyFits_Strict(key) == Len(key) < max_key_size

KeyFits(key) == Len(key) <= max_key_size

ValueFits(value) == Len(value) <= max_value_size

\* kv_set with the size checks before the check of the receiver.
kv_set_SizeFirst(db, contract, key, value) ==
    LET call == OnKey(Call("kv_set", db, 0, 0), contract, key, value)
        kdb == kv_get_db(db)
    IN
    /\ UNCHANGED <<kv_iterators, kv_destroyed_iterators, num_iterators>>
    /\ IF kdb = Null
       THEN last' = Throws(call, ErrBadDb) /\ UNCHANGED <<store, temp_data_buffer>>
       ELSE IF ~KeyFits(key)
       THEN last' = Throws(call, ErrKeyTooLarge) /\ UNCHANGED <<store, temp_data_buffer>>
       ELSE IF ~ValueFits(value)
       THEN last' = Throws(call, ErrValueTooLarge) /\ UNCHANGED <<store, temp_data_buffer>>
       ELSE IF contract # receiver
       THEN last' = Throws(call, ErrNoWrite) /\ UNCHANGED <<store, temp_data_buffer>>
       ELSE /\ temp_data_buffer' = [temp_data_buffer EXCEPT ![kdb[1]] = Null]
            /\ store' = ViewSet(store, kdb[1], contract, key, value)
            /\ last' = call
    /\ scenario' = Observe(last')

\* kv_set without temp_data_buffer = nullptr: the buffer outlives the write.
kv_set_KeepBuffer(db, contract, key, value) ==
    LET call == OnKey(Call("kv_set", db, 0, 0), contract, key, value)
        kdb == kv_get_db(db)
    IN
    /\ UNCHANGED <<temp_data_buffer, kv_iterators, kv_destroyed_iterators, num_iterators>>
    /\ IF kdb = Null
       THEN last' = Throws(call, ErrBadDb) /\ UNCHANGED store
       ELSE IF contract # receiver
       THEN last' = Throws(call, ErrNoWrite) /\ UNCHANGED store
       ELSE IF ~KeyFits(key)
       THEN last' = Throws(call, ErrKeyTooLarge) /\ UNCHANGED store
       ELSE IF ~ValueFits(value)
       THEN last' = Throws(call, ErrValueTooLarge) /\ UNCHANGED store
       ELSE /\ store' = ViewSet(store, kdb[1], contract, key, value)
            /\ last' = call
    /\ scenario' = Observe(last')

(***************************************************************************)
(* The calls on a view: db_callbacks::kv_erase .. kv_get_data, each with   *)
(* the kv_context_rocksdb method it forwards to                            *)
(***************************************************************************)
\* db_callbacks::kv_erase, with kv_context_rocksdb::kv_erase
kv_erase(db, contract, key) ==
    LET call == OnKey(Call("kv_erase", db, 0, 0), contract, key, <<>>)
        kdb == kv_get_db(db)
    IN
    /\ UNCHANGED <<kv_destroyed_iterators, num_iterators>>
    /\ IF ~check_bounds(key)
       THEN last' = Throws(call, ErrBounds)
            /\ UNCHANGED <<store, temp_data_buffer, kv_iterators>>
       ELSE IF kdb = Null
       THEN last' = Throws(call, ErrBadDb)
            /\ UNCHANGED <<store, temp_data_buffer, kv_iterators>>
       ELSE IF contract # receiver
       THEN last' = Throws(call, ErrNoWrite)
            /\ UNCHANGED <<store, temp_data_buffer, kv_iterators>>
       ELSE /\ temp_data_buffer' = [temp_data_buffer EXCEPT ![kdb[1]] = Null]
            /\ store' = ViewErase(store, kdb[1], contract, key)
            /\ kv_iterators' = MarkErased(kv_iterators, kdb[1], contract, key)
            /\ last' = call
    /\ scenario' = Observe(last')

\* db_callbacks::kv_set, with kv_context_rocksdb::kv_set
kv_set(db, contract, key, value) ==
    LET call == OnKey(Call("kv_set", db, 0, 0), contract, key, value)
        kdb == kv_get_db(db)
    IN
    /\ UNCHANGED <<kv_iterators, kv_destroyed_iterators, num_iterators>>
    /\ IF ~check_bounds(key) \/ ~check_bounds(value)
       THEN last' = Throws(call, ErrBounds) /\ UNCHANGED <<store, temp_data_buffer>>
       ELSE IF kdb = Null
       THEN last' = Throws(call, ErrBadDb) /\ UNCHANGED <<store, temp_data_buffer>>
       ELSE IF contract # receiver
       THEN last' = Throws(call, ErrNoWrite) /\ UNCHANGED <<store, temp_data_buffer>>
       ELSE IF ~KeyFits(key)
       THEN last' = Throws(call, ErrKeyTooLarge) /\ UNCHANGED <<store, temp_data_buffer>>
       ELSE IF ~ValueFits(value)
       THEN last' = Throws(call, ErrValueTooLarge) /\ UNCHANGED <<store, temp_data_buffer>>
       ELSE /\ temp_data_buffer' = [temp_data_buffer EXCEPT ![kdb[1]] = Null]
            /\ store' = ViewSet(store, kdb[1], contract, key, value)
            /\ last' = call
    /\ scenario' = Observe(last')

\* db_callbacks::kv_get, with kv_context_rocksdb::kv_get: ret is the returned
\* flag, actual_size the value_size written through the reference.
kv_get(db, contract, key) ==
    LET call == OnKey(Call("kv_get", db, 0, 0), contract, key, <<>>)
        kdb == kv_get_db(db)
    IN
    /\ UNCHANGED <<store, kv_iterators, kv_destroyed_iterators, num_iterators>>
    /\ IF ~check_bounds(key)
       THEN last' = Throws(call, ErrBounds) /\ UNCHANGED temp_data_buffer
       ELSE IF kdb = Null
       THEN last' = Throws(call, ErrBadDb) /\ UNCHANGED temp_data_buffer
       ELSE LET found == ViewGet(kdb[1], contract, key)
            IN /\ temp_data_buffer' = [temp_data_buffer EXCEPT ![kdb[1]] = found]
               /\ last' = IF found # Null
                          THEN [call EXCEPT !.ret = 1, !.actual_size = Len(found[1])]
                          ELSE [call EXCEPT !.ret = 0, !.actual_size = 0]
    /\ scenario' = Observe(last')

\* db_callbacks::kv_get_data, with kv_context_rocksdb::kv_get_data: data is the
\* caller's buffer after the call, ret the size returned.
kv_get_data(db, offset, data_size) ==
    LET call == OnWindow(Call("kv_get_data", db, 0, 0), offset, data_size)
        kdb == kv_get_db(db)
    IN
    /\ UNCHANGED <<store, temp_data_buffer, kv_iterators, kv_destroyed_iterators,
                   num_iterators>>
    /\ IF ~check_bounds(Dest(data_size))
       THEN last' = Throws(call, ErrBounds)
       ELSE IF kdb = Null
       THEN last' = Throws(call, ErrBadDb)
       ELSE LET temp == IF temp_data_buffer[kdb[1]] # Null
                        THEN temp_data_buffer[kdb[1]][1]
                        ELSE <<>>
            IN last' = [call EXCEPT !.data = CopyWindow(Dest(data_size), temp, offset),
                                    !.ret = Len(temp)]
    /\ scenario' = Observe(last')

(***************************************************************************)
(* Spec: the life cycle of the handles.  The caller creates cursors on     *)
(* either tier or on an unknown selector, destroys tokens and resets.      *)
(***************************************************************************)
\* The tokens a caller tries: every slot index, and one beyond the last.
Tokens == 0..Len(kv_iterators)

Next ==
    \/ reset
    \/ \E db \in Tiers \cup {other_db} : kv_it_create(db, receiver, <<>>)
    \/ \E itr \in Tokens : kv_it_destroy(itr)

Spec == Init /\ [][Next]_vars

(***************************************************************************)
(* SpecFwd: the calls that go through a token to a cursor, over a store    *)
(* nobody writes, with at most FwdSlots slots.                             *)
(***************************************************************************)
NextFwd ==
    \/ \E db \in Tiers : Len(kv_iterators) < FwdSlots /\ kv_it_create(db, receiver, <<>>)
    \/ \E itr \in Tokens : kv_it_destroy(itr)
    \/ \E itr \in Tokens : kv_it_status(itr)
    \/ \E a \in Tokens, b \in Tokens : kv_it_compare(a, b)
    \/ \E itr \in Tokens : kv_it_key_compare(itr, <<2>>)
    \/ \E itr \in Tokens : kv_it_move_to_end(itr)
    \/ \E itr \in Tokens : kv_it_next(itr)
    \/ \E itr \in Tokens : kv_it_prev(itr)
    \/ \E itr \in Tokens : kv_it_lower_bound(itr, <<2>>)
    \/ \E itr \in Tokens : kv_it_key(itr, 0, 1)
    \/ \E itr \in Tokens : kv_it_value(itr, 1, 1)

SpecFwd == Init /\ [][NextFwd]_vars

\* The contract's calls on the two views: writes and reads with keys and
\* values at and one past the limits, by the receiver and by another contract,
\* on both tiers and on a selector that names none; a cursor is created on the
\* memory tier only while no slot has been taken.
Bytes(n, b) == [i \in 1..n |-> b]

KVKeys == {<<1>>, Bytes(max_key_size, 1), Bytes(max_key_size + 1, 1)}

KVValues == {Bytes(max_value_size, 7), Bytes(max_value_size + 1, 7)}

KVStored == {<<1>>, Bytes(max_key_size, 1)}

Selectors == Tiers \cup {other_db}

Contracts == {receiver, other_contract}

NextKV ==
    \/ \E db \in Selectors, c \in Contracts, k \in KVStored : kv_erase(db, c, k)
    \/ \E db \in Selectors, c \in Contracts, k \in KVKeys, v \in KVValues :
          kv_set(db, c, k, v)
    \/ \E db \in Selectors, c \in Contracts, k \in KVStored : kv_get(db, c, k)
    \/ \E db \in Selectors, n \in {0, max_value_size} : kv_get_data(db, 0, n)
    \/ \E db \in {kvram_id, other_db} :
          /\ db \in Tiers => kv_iterators = <<Null>>
          /\ kv_it_create(db, receiver, <<>>)

SpecKV == Init /\ [][NextKV]_vars

\* The contract's reads through windows: kv_get fills the buffers, one cursor
\* is created and placed, and kv_get_data, kv_it_key and kv_it_value copy with
\* every offset and size up to one more than the longest value.
Windows == 0..(max_value_size + 1)

NextRead ==
    \/ \E db \in Tiers, k \in {<<1>>, <<3>>} : kv_get(db, receiver, k)
    \/ \E db \in Tiers, o \in Windows, n \in Windows : kv_get_data(db, o, n)
    \/ \E db \in Tiers : kv_iterators = <<Null>> /\ kv_it_create(db, receiver, <<>>)
    \/ \E itr \in Tokens : kv_it_lower_bound(itr, <<1>>)
    \/ \E itr \in Tokens, o \in Windows, n \in Windows : kv_it_key(itr, o, n)
    \/ \E itr \in Tokens, o \in Windows, n \in Windows : kv_it_value(itr, o, n)

SpecRead == Init /\ [][NextRead]_vars

\* The contract's calls on a pair of cursors while rows come and go: cursors
\* of either tier, of the receiver and of another contract, over all keys and
\* over those with a prefix, at most two of them live at a time; the receiver
\* erases rows of the disk tier under them and writes one of them again.
CursorKinds ==
    {<<kvram_id, receiver, <<>> >>, <<kvdisk_id, receiver, <<>> >>,
     <<kvdisk_id, receiver, <<1>> >>, <<kvdisk_id, other_contract, <<>> >>}

Pair == {i \in 1..(Len(kv_iterators) - 1) : kv_iterators[i + 1] # Null}

Created == 1..(Len(kv_iterators) - 1)

NextCur ==
    \/ \E k \in CursorKinds :
          /\ \A i \in Pair : Pair = {i}
          /\ kv_it_create(k[1], k[2], k[3])
    \/ \E itr \in Created : kv_it_destroy(itr)
    \/ \E k \in {<<1>>, <<2>>} : kv_erase(kvdisk_id, receiver, k)
    \/ kv_set(kvdisk_id, receiver, <<1>>, <<1>>)
    \/ \E itr \in Created : kv_it_status(itr)
    \/ \E itr_a \in Created, itr_b \in Created : kv_it_compare(itr_a, itr_b)
    \/ \E itr \in Created : kv_it_key_compare(itr, <<1>>)
    \/ \E itr \in Created : kv_it_move_to_end(itr)
    \/ \E itr \in Created : kv_it_next(itr)
    \/ \E itr \in Created : kv_it_prev(itr)
    \/ \E itr \in Created, k \in {<<1>>, <<2>>} : kv_it_lower_bound(itr, k)
    \/ \E itr \in Created : kv_it_key(itr, 0, 1)
    \/ \E itr \in Created : kv_it_value(itr, 0, 1)

SpecCur == Init /\ [][NextCur]_vars

(***************************************************************************)
(* What the claims speak of                                                *)
(***************************************************************************)
\* The non-reserved slot indices, the live ones among them and the empty ones.
Slots == 1..(Len(kv_iterators) - 1)

LiveSlots == {i \in Slots : kv_iterators[i + 1] # Null}

LiveOn(db) == {i \in LiveSlots : kv_iterators[i + 1][1].db = db}

\* How often index i stands in the free list.
TimesFree(i) ==
    Cardinality({j \in 1..Len(kv_destroyed_iterators) : kv_destroyed_iterators[j] = i})

FreeSet == {kv_destroyed_iterators[j] : j \in 1..Len(kv_destroyed_iterators)}

\* A token no live cursor answers to: 0, beyond the slots, or an empty slot.
InvalidToken(itr) ==
    itr = 0 \/ itr >= Len(kv_iterators) \/ kv_iterators[itr + 1] = Null

Untouched == UNCHANGED <<store, temp_data_buffer, kv_iterators,
                         kv_destroyed_iterators, num_iterators>>

\* C1: in every reachable state slot 0 is empty and not in the free list, every
\* empty non-reserved slot stands exactly once in the free list, no live slot
\* stands in it, and the free list holds nothing but slot indices.
C1_Partition ==
    /\ kv_iterators[1] = Null
    /\ TimesFree(0) = 0
    /\ FreeSet \subseteq Slots
    /\ \A i \in Slots : TimesFree(i) = IF kv_iterators[i + 1] = Null THEN 1 ELSE 0

\* C2: a kv_it_create that fails leaves the slot sequence, the free list and
\* both views' counters as they were.
C2_FailedCreateChangesNothing ==
    [][(last'.op = "kv_it_create" /\ ~last'.ok)
         => UNCHANGED <<kv_iterators, kv_destroyed_iterators, num_iterators>>]_vars

\* C3: reset() called in a state with no live cursor succeeds.
C3_ResetSucceedsWhenNoneLive ==
    [][(last'.op = "reset" /\ LiveSlots = {}) => last'.ok]_vars

\* C4 as stated: the live cursors of the session, both tiers together, never
\* number more than max_iterators.
C4_TotalBudget == Cardinality(LiveSlots) <= max_iterators

\* C4 amended: the live cursors of each tier never number more than
\* max_iterators, and a kv_it_create on a tier whose live cursors number
\* max_iterators fails with "Too many iterators", whatever the other tier holds.
C4_PerTierBudget ==
    [][/\ \A d \in Tiers : Cardinality(LiveOn(d))' <= max_iterators
       /\ (last'.op = "kv_it_create" /\ last'.db \in Tiers
           /\ Cardinality(LiveOn(last'.db)) = max_iterators)
            => (~last'.ok /\ last'.err = ErrTooMany)]_vars

\* A create on a full tier has failed while the session holds more than
\* max_iterators live cursors.
C4_Witness ==
    /\ last.op = "kv_it_create" /\ ~last.ok /\ last.err = ErrTooMany
    /\ Cardinality(LiveOn(last.db)) = max_iterators
    /\ Cardinality(LiveSlots) > max_iterators

\* C5: on a fresh session and one tier, the first max_iterators creates
\* succeed, the next fails with "Too many iterators", and after a destroy of a
\* live token the following create succeeds and returns that token.
C5_BudgetRun ==
    /\ scenario.stage \in 1..max_iterators
         => (last.op = "kv_it_create" /\ last.ok /\ last.ret = scenario.stage)
    /\ scenario.stage = max_iterators + 1
         => (last.op = "kv_it_create" /\ ~last.ok /\ last.err = ErrTooMany)
    /\ scenario.stage = max_iterators + 2
         => (last.op = "kv_it_destroy" /\ last.ok)
    /\ scenario.stage = max_iterators + 3
         => (last.op = "kv_it_create" /\ last.ok /\ last.ret = scenario.tok)

\* The run has been made to its end.
C5_Witness == scenario.stage = max_iterators + 3

\* C6: a create that succeeds returns a token that is not 0 and was not live
\* when the call was made, and every cursor live before the call is still in
\* its slot after it.
C6_FreshToken ==
    [][(last'.op = "kv_it_create" /\ last'.ok)
         => /\ last'.ret # 0
            /\ last'.ret \notin LiveSlots
            /\ \A i \in LiveSlots : kv_iterators'[i + 1] = kv_iterators[i + 1]
            /\ LiveSlots' = LiveSlots \cup {last'.ret}]_vars

\* A create has reused a token below that of a cursor still live.
C6_Witness ==
    /\ last.op = "kv_it_create" /\ last.ok
    /\ \E i \in LiveSlots : i > last.ret

\* C7 as stated: with a free list that is not empty, a create that succeeds
\* returns the lowest index in it.
C7_LowestFree ==
    [][(last'.op = "kv_it_create" /\ last'.ok /\ kv_destroyed_iterators # <<>>)
         => \A i \in FreeSet : last'.ret <= i]_vars

\* C7 amended: with a free list that is not empty, a create that succeeds
\* returns its last element, the index destroyed most recently among those not
\* reused, and takes it off the list; with an empty free list it appends a slot
\* and returns that slot's index.
C7_LastFree ==
    [][(last'.op = "kv_it_create" /\ last'.ok)
         => IF kv_destroyed_iterators # <<>>
            THEN /\ last'.ret = kv_destroyed_iterators[Len(kv_destroyed_iterators)]
                 /\ kv_destroyed_iterators' =
                      SubSeq(kv_destroyed_iterators, 1, Len(kv_destroyed_iterators) - 1)
                 /\ Len(kv_iterators') = Len(kv_iterators)
            ELSE /\ last'.ret = Len(kv_iterators)
                 /\ Len(kv_iterators') = Len(kv_iterators) + 1
                 /\ kv_destroyed_iterators' = <<>>]_vars

\* A create has returned an index while a lower one stays in the free list.
C7_Witness ==
    /\ last.op = "kv_it_create" /\ last.ok
    /\ \E i \in FreeSet : i < last.ret

\* C8: reset() called while a cursor is live fails with "iterators are still
\* alive" and changes nothing.
C8_ResetFailsWhileLive ==
    [][(last'.op = "reset" /\ LiveSlots # {})
         => (~last'.ok /\ last'.err = ErrStillAlive /\ Untouched)]_vars

\* A reset has failed over a table with a live cursor and a destroyed slot.
C8_Witness ==
    /\ last.op = "reset" /\ ~last.ok
    /\ LiveSlots # {}
    /\ kv_destroyed_iterators # <<>>

\* C9: after a reset that succeeded the table is the reserved slot alone and
\* the free list is empty, and the first create to succeed after it returns 1.
C9_ResetThenTokenOne ==
    /\ (last.op = "reset" /\ last.ok)
         => (kv_iterators = <<Null>> /\ kv_destroyed_iterators = <<>>)
    /\ (scenario.phase = "first" /\ last.op = "kv_it_create" /\ last.ok)
         => last.ret = 1

\* The first create after a reset of a table that had held three slots or more.
C9_Witness ==
    /\ scenario.phase = "first" /\ scenario.was >= 4
    /\ last.op = "kv_it_create" /\ last.ok

\* C10: kv_it_destroy and every call that forwards to a cursor, given a token
\* that is 0, beyond the slots or of an empty slot, fails with "Bad key-value
\* iterator" and changes nothing; no index is in the free list twice.
CursorCalls ==
    {"kv_it_destroy", "kv_it_status", "kv_it_compare", "kv_it_key_compare",
     "kv_it_move_to_end", "kv_it_next", "kv_it_prev", "kv_it_lower_bound",
     "kv_it_key", "kv_it_value"}

C10_InvalidHandle ==
    [][/\ (/\ last'.op \in CursorCalls
           /\ \/ InvalidToken(last'.itr)
              \/ last'.op = "kv_it_compare" /\ InvalidToken(last'.itr_b))
            => (~last'.ok /\ last'.err = ErrBadIterator /\ Untouched)
       /\ \A i \in Slots' : TimesFree(i)' <= 1]_vars

\* A second destroy of a token has failed, and the token is in the free list once.
C10_Witness ==
    /\ last.op = "kv_it_destroy" /\ ~last.ok /\ last.err = ErrBadIterator
    /\ last.itr \in Slots
    /\ TimesFree(last.itr) = 1

\* The rows of a tier that belong to other contracts than the receiver.
ForeignRows(rows) == {r \in rows : r.contract # receiver}

\* C11: kv_set and kv_erase on a tier with a contract other than the receiver
\* fail with "Can not write to this key" whatever the sizes of the key and the
\* value are, and leave the store and both buffers as they were; no call
\* changes the rows of another contract.
C11_ForeignWriteDenied ==
    [][/\ (/\ last'.op \in {"kv_set", "kv_erase"}
           /\ last'.db \in Tiers
           /\ last'.contract # receiver)
            => (/\ ~last'.ok /\ last'.err = ErrNoWrite
                /\ UNCHANGED <<store, temp_data_buffer>>)
       /\ \A d \in Tiers : ForeignRows(store'[d]) = ForeignRows(store[d])]_vars

\* Another contract's kv_set of a key and a value both one over the limit has
\* been refused for the key's owner, and the buffer of the tier still holds a value.
C11_Witness ==
    /\ last.op = "kv_set" /\ last.db \in Tiers /\ last.contract = other_contract
    /\ Len(last.key) = max_key_size + 1 /\ Len(last.value) = max_value_size + 1
    /\ ~last.ok /\ last.err = ErrNoWrite
    /\ temp_data_buffer[last.db] # Null

\* C12: the receiver's kv_set on a tier succeeds with a key of max_key_size
\* bytes and a value of max_value_size bytes; it fails with "Key too large" for
\* a key of max_key_size + 1 bytes, and with "Value too large" for a value of
\* max_value_size + 1 bytes under a key within the limit; a kv_set that fails
\* leaves the store and the buffers as they were.
C12_SizeLimits ==
    [][(last'.op = "kv_set" /\ last'.db \in Tiers /\ last'.contract = receiver)
        => /\ (Len(last'.key) = max_key_size /\ Len(last'.value) = max_value_size)
                => (/\ last'.ok
                    /\ [contract |-> receiver, key |-> last'.key, value |-> last'.value]
                         \in store'[last'.db])
           /\ Len(last'.key) = max_key_size + 1
                => (~last'.ok /\ last'.err = ErrKeyTooLarge)
           /\ (Len(last'.key) <= max_key_size /\ Len(last'.value) = max_value_size + 1)
                => (~last'.ok /\ last'.err = ErrValueTooLarge)
           /\ ~last'.ok => UNCHANGED <<store, temp_data_buffer>>]_vars

\* A value one byte over the limit has been refused under a key of exactly
\* max_key_size bytes, and the buffer of the tier still holds a value.
C12_Witness ==
    /\ last.op = "kv_set" /\ last.db \in Tiers /\ last.contract = receiver
    /\ Len(last.key) = max_key_size /\ Len(last.value) = max_value_size + 1
    /\ ~last.ok /\ last.err = ErrValueTooLarge
    /\ temp_data_buffer[last.db] # Null

\* C13: a kv_get of the tier, contract and key of the kv_set that has just
\* succeeded returns true with the length of the value written, and a
\* kv_get_data on the tier after it yields that value; after a kv_erase that
\* has just succeeded the kv_get returns false with length 0; the receiver's
\* kv_erase on a tier succeeds whether the key is present or not.
C13_ReadsLastWrite ==
    /\ (scenario.wstage = 2 /\ scenario.write.op = "kv_set")
         => (last.ok /\ last.ret = 1 /\ last.actual_size = Len(scenario.write.value))
    /\ (scenario.wstage = 2 /\ scenario.write.op = "kv_erase")
         => (last.ok /\ last.ret = 0 /\ last.actual_size = 0)
    /\ (/\ scenario.wstage = 3 /\ scenario.write.op = "kv_set"
        /\ last.offset = 0 /\ last.size >= Len(scenario.write.value))
         => (/\ last.ok /\ last.ret = Len(scenario.write.value)
             /\ SubSeq(last.data, 1, Len(scenario.write.value)) = scenario.write.value)
    /\ (last.op = "kv_erase" /\ last.db \in Tiers /\ last.contract = receiver)
         => last.ok

\* A value has been written over another one, found by kv_get and copied out
\* by kv_get_data.
C13_Witness ==
    /\ scenario.wstage = 3 /\ scenario.write.op = "kv_set"
    /\ scenario.write.key = <<1>>
    /\ last.op = "kv_get_data" /\ last.size >= Len(scenario.write.value)
    /\ last.data = scenario.write.value

\* C14: the buffer of each tier is empty or holds the value found by the last
\* kv_get on the tier, with no kv_set or kv_erase on the tier having succeeded
\* since; kv_get_data on a tier reports the length of that value, and 0 when
\* there is none; no call on one tier changes the buffer of the other.
C14_BufferOfLastGet ==
    [][\A d \in Tiers :
         /\ temp_data_buffer[d] = scenario.got[d]
         /\ temp_data_buffer'[d] = scenario'.got[d]
         /\ last'.db # d => temp_data_buffer'[d] = temp_data_buffer[d]
         /\ (last'.op = "kv_get_data" /\ last'.db = d)
              => (/\ last'.ok
                  /\ last'.ret = IF scenario.got[d] = Null THEN 0
                                 ELSE Len(scenario.got[d][1]))]_vars

\* A write on one tier has succeeded: the buffer of that tier is empty and the
\* buffer of the other tier holds the value its last kv_get found.
C14_Witness ==
    /\ last.op \in {"kv_set", "kv_erase"} /\ last.ok
    /\ temp_data_buffer[last.db] = Null
    /\ \E d \in Tiers : d # last.db /\ temp_data_buffer[d] # Null

Max(a, b) == IF a >= b THEN a ELSE b

\* A destination of size bytes after min(size, max(0, L - offset)) bytes of src
\* from offset on were copied to its front.
Window(src, offset, size) ==
    [i \in 1..size |->
        IF i <= Min(size, Max(0, Len(src) - offset)) THEN src[offset + i] ELSE 0]

\* C15: kv_get_data, kv_it_key and kv_it_value copy exactly
\* min(size, max(0, L - offset)) bytes of their source of length L, from
\* offset on, to the front of the destination, leave its other bytes as they
\* were and report L; a cursor at the end copies nothing and reports length 0
\* with status end.
C15_WindowCopy ==
    [][/\ (last'.op = "kv_get_data" /\ last'.db \in Tiers)
            => LET src == IF temp_data_buffer[last'.db] = Null THEN <<>>
                          ELSE temp_data_buffer[last'.db][1]
               IN /\ last'.ok
                  /\ last'.data = Window(src, last'.offset, last'.size)
                  /\ last'.ret = Len(src)
       /\ (/\ last'.op \in {"kv_it_key", "kv_it_value"}
           /\ kv_check_iterator(last'.itr)
           /\ it_status(Cursor(last'.itr)) # iterator_erased)
            => LET c == Cursor(last'.itr)
                   src == IF last'.op = "kv_it_key" THEN c.pos[1]
                          ELSE ViewGet(c.db, c.contract, c.pos[1])[1]
               IN /\ last'.ok
                  /\ IF c.pos = Null
                     THEN /\ last'.data = Dest(last'.size)
                          /\ last'.actual_size = 0
                          /\ last'.ret = iterator_end
                     ELSE /\ last'.data = Window(src, last'.offset, last'.size)
                          /\ last'.actual_size = Len(src)
                          /\ last'.ret = iterator_ok]_vars

\* kv_it_value has copied from inside a value into a destination longer than
\* what was left of it: the front holds the bytes, the rest is as it was.
C15_Witness ==
    /\ last.op = "kv_it_value" /\ last.ok /\ last.ret = iterator_ok
    /\ last.offset > 0 /\ last.offset < last.actual_size
    /\ last.size > last.actual_size - last.offset
    /\ last.data[1] # 0 /\ last.data[last.size] = 0

\* The status of the cursor in slot i of a slot sequence.
StatusIn(iters, i) == it_status(iters[i + 1][1])

ErasedNow(i) == kv_check_iterator(i) /\ StatusIn(kv_iterators, i) = iterator_erased

SameRange(i, j) ==
    /\ Cursor(i).db = Cursor(j).db
    /\ Cursor(i).contract = Cursor(j).contract

\* The calls on one cursor that check is_erased.
StaleCalls == {"kv_it_next", "kv_it_prev", "kv_it_key_compare", "kv_it_key", "kv_it_value"}

\* What C16 says of the calls other than kv_it_compare: a kv_erase that succeeds
\* turns the cursors that were ok at its row erased, kv_it_status reports the
\* status, the calls on one erased cursor fail with "Iterator to erased
\* element" and move nothing, and an erased cursor stays erased through every
\* call that does not move or destroy it.
ErasedCursorSteps ==
    /\ (last'.op = "kv_erase" /\ last'.ok)
         => \A i \in LiveSlots :
              (/\ StatusIn(kv_iterators, i) = iterator_ok
               /\ Cursor(i).db = last'.db /\ Cursor(i).contract = last'.contract
               /\ Cursor(i).pos = Some(last'.key))
               => StatusIn(kv_iterators', i) = iterator_erased
    /\ (last'.op = "kv_it_status" /\ kv_check_iterator(last'.itr))
         => (/\ last'.ok /\ last'.ret = StatusIn(kv_iterators, last'.itr)
             /\ UNCHANGED kv_iterators)
    /\ (last'.op \in StaleCalls /\ ErasedNow(last'.itr))
         => (~last'.ok /\ last'.err = ErrErased /\ UNCHANGED kv_iterators)
    /\ \A i \in LiveSlots :
         ErasedNow(i)
          => \/ /\ last'.itr = i
                /\ last'.op \in {"kv_it_lower_bound", "kv_it_move_to_end", "kv_it_destroy"}
             \/ /\ i < Len(kv_iterators') /\ kv_iterators'[i + 1] # Null
                /\ StatusIn(kv_iterators', i) = iterator_erased

\* kv_it_compare of two live cursors of which one is erased.
CompareWithErased ==
    /\ last'.op = "kv_it_compare"
    /\ kv_check_iterator(last'.itr) /\ kv_check_iterator(last'.itr_b)
    /\ ErasedNow(last'.itr) \/ ErasedNow(last'.itr_b)

\* C16: a cursor that is ok at key k of a tier and contract reports erased
\* after a kv_erase of that key succeeded; while it is erased, kv_it_next,
\* kv_it_prev, kv_it_key_compare, kv_it_key and kv_it_value on it, and
\* kv_it_compare of it (as either operand) with a live cursor of the same tier
\* and contract, fail with "Iterator to erased element"; kv_it_compare of it
\* with a live cursor of another tier or contract fails with "Incompatible
\* key-value iterators"; all of them leave it erased, and it stays erased
\* until it is moved or destroyed.
C16_ErasedCursor ==
    [][/\ ErasedCursorSteps
       /\ CompareWithErased
            => (/\ ~last'.ok
                /\ last'.err = IF SameRange(last'.itr, last'.itr_b)
                               THEN ErrErased ELSE ErrIncompatible
                /\ UNCHANGED kv_iterators)]_vars

\* C16 as stated: kv_it_compare with an erased operand fails with "Iterator to
\* erased element" whatever the other live cursor is.
C16_ErasedAlwaysStale ==
    [][/\ ErasedCursorSteps
       /\ CompareWithErased
            => (~last'.ok /\ last'.err = ErrErased /\ UNCHANGED kv_iterators)]_vars

\* A compare of a cursor that is ok with an erased cursor of its tier and
\* contract has failed, and the second cursor is still erased.
C16_Witness ==
    /\ last.op = "kv_it_compare" /\ ~last.ok /\ last.err = ErrErased
    /\ kv_check_iterator(last.itr) /\ kv_check_iterator(last.itr_b)
    /\ StatusIn(kv_iterators, last.itr) = iterator_ok
    /\ ErasedNow(last.itr_b)

\* C17: kv_it_lower_bound on a live cursor succeeds whatever the status of the
\* cursor was; afterwards the cursor is at the smallest key >= k among the keys
\* of its tier and contract that start with its prefix, with status ok, or at
\* the end if there is none; the status it returns is never erased.
C17_LowerBound ==
    [][(last'.op = "kv_it_lower_bound" /\ kv_check_iterator(last'.itr))
        => LET c == Cursor(last'.itr)
               after == kv_iterators'[last'.itr + 1][1]
               range == {r.key : r \in {x \in store[c.db] :
                            x.contract = c.contract /\ HasPrefix(x.key, c.prefix)}}
               from == {k \in range : compare_blob(k, last'.key) >= 0}
           IN /\ last'.ok
              /\ last'.ret = it_status(after) /\ last'.ret # iterator_erased
              /\ after.db = c.db /\ after.contract = c.contract /\ after.prefix = c.prefix
              /\ IF from = {}
                 THEN last'.ret = iterator_end
                 ELSE /\ last'.ret = iterator_ok
                      /\ after.pos # Null /\ after.pos[1] \in from
                      /\ \A k \in from : compare_blob(after.pos[1], k) <= 0]_vars

\* A cursor over the keys with a prefix has gone to the end for a key that is
\* in its tier and contract but does not start with the prefix.
C17_Witness ==
    /\ last.op = "kv_it_lower_bound" /\ last.ok /\ last.ret = iterator_end
    /\ kv_check_iterator(last.itr)
    /\ Cursor(last.itr).prefix # <<>>
    /\ ViewGet(Cursor(last.itr).db, Cursor(last.itr).contract, last.key) # Null

\* The calls that take a selector of a tier.
TierCalls == {"kv_erase", "kv_set", "kv_get", "kv_get_data", "kv_it_create"}

\* C18: kv_erase, kv_set, kv_get, kv_get_data and kv_it_create with a selector
\* that is neither kvram_id nor kvdisk_id fail with "Bad key-value database ID"
\* and leave the store, both buffers, the slots and the free list as they were.
C18_UnknownDatabase ==
    [][(last'.op \in TierCalls /\ last'.db \notin Tiers)
        => (~last'.ok /\ last'.err = ErrBadDb /\ Untouched)]_vars

\* A kv_set by the receiver with an unknown selector has failed while a cursor
\* was live and both buffers held a value.
C18_Witness ==
    /\ last.op = "kv_set" /\ last.db = other_db /\ last.contract = receiver
    /\ ~last.ok /\ last.err = ErrBadDb
    /\ LiveSlots # {}
    /\ \A d \in Tiers : temp_data_buffer[d] # Null

\* C19: for each tier, num_iterators is the number of slots that hold a cursor
\* of that tier; it changes only by one up in a kv_it_create on the tier that
\* succeeds and by one down in a kv_it_destroy of a cursor of the tier that
\* succeeds, and no call that fails changes it.
C19_LiveCounter ==
    [][\A d \in Tiers :
         /\ num_iterators[d] = Cardinality(LiveOn(d))
         /\ num_iterators'[d] = Cardinality(LiveOn(d)')
         /\ (last'.op = "kv_it_create" /\ last'.ok /\ last'.db = d)
              => num_iterators'[d] = num_iterators[d] + 1
         /\ (last'.op = "kv_it_destroy" /\ last'.ok /\ Cursor(last'.itr).db = d)
              => num_iterators'[d] = num_iterators[d] - 1
         /\ num_iterators'[d] # num_iterators[d]
              => /\ last'.ok
                 /\ \/ last'.op = "kv_it_create" /\ last'.db = d
                    \/ last'.op = "kv_it_destroy" /\ Cursor(last'.itr).db = d]_vars

\* A create has failed on a tier whose counter is at the limit and has left
\* an empty slot: the counter is still the number of the tier's live cursors.
C19_Witness ==
    /\ last.op = "kv_it_create" /\ ~last.ok /\ last.err = ErrTooMany
    /\ num_iterators[last.db] = max_iterators
    /\ Cardinality(LiveOn(last.db)) = max_iterators
    /\ Cardinality(LiveSlots) < Len(kv_iterators) - 1

\* C20: kv_it_compare of two live cursors fails with "Incompatible key-value
\* iterators" exactly when their tiers or their contracts differ, also when
\* one of them is erased; cursors that differ in the prefix only are
\* compared; a compare that fails leaves the cursors as they were.
C20_IncompatibleCursors ==
    [][(/\ last'.op = "kv_it_compare"
        /\ kv_check_iterator(last'.itr) /\ kv_check_iterator(last'.itr_b))
        => /\ (~last'.ok /\ last'.err = ErrIncompatible)
                <=> ~SameRange(last'.itr, last'.itr_b)
           /\ (/\ SameRange(last'.itr, last'.itr_b)
               /\ ~ErasedNow(last'.itr) /\ ~ErasedNow(last'.itr_b))
                => last'.ok
           /\ UNCHANGED kv_iterators]_vars

\* An erased cursor has been compared with a cursor of another contract: the
\* call failed for the contract, and the cursor is still erased.
C20_Witness ==
    /\ last.op = "kv_it_compare" /\ ~last.ok /\ last.err = ErrIncompatible
    /\ kv_check_iterator(last.itr) /\ kv_check_iterator(last.itr_b)
    /\ ErasedNow(last.itr)
    /\ Cursor(last.itr).db = Cursor(last.itr_b).db
    /\ Cursor(last.itr).contract # Cursor(last.itr_b).contract

=============================================================================
